---- MODULE Spec2Model ----
(***************************************************************************)
(* Model of src/project.py: a Streamlit dashboard over a survey CSV.       *)
(*                                                                         *)
(*   load_data                  (lines 7-22)   reads the file, extracts    *)
(*                                             the sorted country list     *)
(*   process_multiselect_column (lines 24-38)  splits a ';'-joined column  *)
(*                                             and counts the tokens       *)
(*   the script body            (lines 40-162) one execution per user      *)
(*                                             interaction                 *)
(*                                                                         *)
(* A string is a sequence of one-character strings.  A cell of a table is  *)
(* a record: missing (NaN) or a text.  A DataFrame is a set of column      *)
(* names and a sequence of rows, each row a function from the columns to   *)
(* cells.  A pandas Series of counts is a sequence of <<token, count>>.    *)
(***************************************************************************)
EXTENDS Naturals, Sequences, FiniteSets, TLC

VARIABLES
    file,                   \* what is on disk at './survey_results_small.csv'
    pc,                     \* where the process is
    df_public,              \* module global of line 40
    countries,              \* module global of line 40
    load_messages,          \* st.error calls made inside load_data
    selected_menu,          \* st.sidebar.radio value
    selected_country,       \* st.sidebar.selectbox value
    selected_option_label,  \* st.selectbox value of the detail page
    view,                   \* what the last execution of the script rendered
    agg                     \* the last call of process_multiselect_column

vars == <<file, pc, df_public, countries, load_messages, selected_menu,
          selected_country, selected_option_label, view, agg>>

----------------------------------------------------------------------------
(* Bounds of the model *)

\* rows of an enumerated table
MaxRows == 2
\* characters of all the cells of an enumerated multi-select column together
MaxChars == 4
\* distinct tokens of the widest constructed table
MaxWide == 20

(* Program constants *)

\* lang_counts.head(15), result_counts.head(15)
TopN == 15
\* df_public.head() on the home page
HeadRows == 5

----------------------------------------------------------------------------
(* Values *)

NaN == [missing |-> TRUE, text |-> <<>>]
Str(s) == [missing |-> FALSE, text |-> s]

\* the "All" sentinel of the country filter, a string of the two Hangul
\* syllables U+C804 U+CCB4, each written here by its romanised name
ALL == <<"jeon", "che">>

COUNTRY == "Country"

\* analysis_options, in the order of the dict
analysis_labels ==
    << "most used language", "most wanted language",
       "most used database", "most wanted database",
       "most used platform", "most wanted platform" >>

analysis_options ==
    [ l \in { analysis_labels[i] : i \in DOMAIN analysis_labels } |->
        CASE l = "most used language"   -> "LanguageHaveWorkedWith"
          [] l = "most wanted language" -> "LanguageWantToWorkWith"
          [] l = "most used database"   -> "DatabaseHaveWorkedWith"
          [] l = "most wanted database" -> "DatabaseWantToWorkWith"
          [] l = "most used platform"   -> "PlatformHaveWorkedWith"
          [] l = "most wanted platform" -> "PlatformWantToWorkWith" ]

menu_options == << "Home", "Usage", "Detail" >>

Range(s) == { s[i] : i \in DOMAIN s }

Min(a, b) == IF a <= b THEN a ELSE b

----------------------------------------------------------------------------
(* pandas / Python primitives the code calls *)

\* code points of the characters that occur in country names
CharCode(c) ==
    CASE c = "K" -> 75
      [] c = "R" -> 82
      [] c = "S" -> 83
      [] c = "U" -> 85
      [] c = "jeon" -> 51204
      [] c = "che" -> 52404

\* Python's str < str: lexicographic by code point, a proper prefix is smaller
RECURSIVE StrLess(_, _)
StrLess(a, b) ==
    IF b = <<>> THEN FALSE
    ELSE IF a = <<>> THEN TRUE
    ELSE IF Head(a) = Head(b) THEN StrLess(Tail(a), Tail(b))
    ELSE CharCode(Head(a)) < CharCode(Head(b))

\* Series[column]
Column(df, column_name) == [ i \in DOMAIN df.rows |-> df.rows[i][column_name] ]

\* the Python values of a Series without missing cells
Texts(s) == [ i \in DOMAIN s |-> s[i].text ]

SeriesDropna_keep(s) == s

\* Series.dropna()
SeriesDropna(s) == SelectSeq(s, LAMBDA c : ~c.missing)

\* Series.unique(): the distinct values in order of first appearance
Unique(s) ==
    LET idx   == [ i \in DOMAIN s |-> i ]
        first == SelectSeq(idx, LAMBDA i : \A j \in 1..(i - 1) : s[j] # s[i])
    IN  [ k \in DOMAIN first |-> s[first[k]] ]

\* ndarray.sort() on an array of str: ascending
RECURSIVE InsertSorted(_, _)
InsertSorted(x, s) ==
    IF s = <<>> THEN <<x>>
    ELSE IF StrLess(x, Head(s)) THEN <<x>> \o s
    ELSE <<Head(s)>> \o InsertSorted(x, Tail(s))

SortAscending_skipped(s) == s

RECURSIVE SortAscending(_)
SortAscending(s) ==
    IF s = <<>> THEN <<>>
    ELSE InsertSorted(Head(s), SortAscending(Tail(s)))

DataFrameDropna_keep(df, column_name) == df

\* df.dropna(subset=[column_name])
DataFrameDropna(df, column_name) ==
    [ df EXCEPT !.rows = SelectSeq(df.rows, LAMBDA r : ~r[column_name].missing) ]

\* str.split(';'): literal, nothing trimmed, empty tokens kept
RECURSIVE StrSplit(_)
StrSplit(s) ==
    IF s = <<>> THEN << <<>> >>
    ELSE LET rest == StrSplit(Tail(s))
         IN  IF Head(s) = ";"
             THEN << <<>> >> \o rest
             ELSE << <<Head(s)>> \o Head(rest) >> \o Tail(rest)

\* Series.str.split(';').explode(): the tokens of every row, in row order
RECURSIVE Explode(_)
Explode(s) ==
    IF s = <<>> THEN <<>>
    ELSE StrSplit(Head(s).text) \o Explode(Tail(s))

\* occurrences of token t in the flattened sequence
CountOf(flat, t) == Cardinality({ i \in DOMAIN flat : flat[i] = t })

RECURSIVE AscendingOrders(_, _)
AscendingOrders(keys, flat) ==
    IF keys = {} THEN { <<>> }
    ELSE LET low == { k \in keys :
                        \A o \in keys : CountOf(flat, k) <= CountOf(flat, o) }
         IN  UNION { { << <<k, CountOf(flat, k)>> >> \o rest :
                         rest \in AscendingOrders(keys \ {k}, flat) } : k \in low }

\* The orders Series.sort_values(ascending=False) can leave the keys in.  The
\* sort is pandas' default kind='quicksort', numpy's introsort or its SIMD
\* sort, neither of them stable: the counts come out descending and keys of
\* equal count come out in an order the build decides.
RECURSIVE DescendingOrders(_, _)
DescendingOrders(keys, flat) ==
    IF keys = {} THEN { <<>> }
    ELSE LET top == { k \in keys :
                        \A o \in keys : CountOf(flat, o) <= CountOf(flat, k) }
         IN  UNION { { << <<k, CountOf(flat, k)>> >> \o rest :
                         rest \in DescendingOrders(keys \ {k}, flat) } : k \in top }

\* Series.value_counts(): every outcome it can have on the flattened tokens
value_counts(flat) == DescendingOrders(Range(flat), flat)

SeriesHead_whole(s, n) == s

\* Series.head(n)
SeriesHead(s, n) == SubSeq(s, 1, Min(n, Len(s)))

EmptySeries == <<>>

----------------------------------------------------------------------------
(* load_data, lines 7-22 *)

\* pd.read_csv on what is at the path: a file that parses gives its table;
\* no file raises FileNotFoundError; a path that exists and cannot be read
\* (a directory, no permission) raises another OSError; a file that does
\* not parse raises a parser error
NoTable == [columns |-> {}, rows |-> <<>>]

read_csv(f) ==
    CASE f.kind = "csv"    -> [ raised |-> "",                  data |-> f.table ]
      [] f.kind = "absent" -> [ raised |-> "FileNotFoundError", data |-> NoTable ]
      [] OTHER             -> [ raised |-> "Exception",         data |-> NoTable ]

\* lines 11-16
table_and_countries(data) ==
    IF COUNTRY \in data.columns
    THEN [ is_none   |-> FALSE,
           data      |-> data,
           countries |-> SortAscending(Texts(Unique(SeriesDropna(Column(data, COUNTRY))))),
           messages  |-> {} ]
    ELSE [ is_none |-> FALSE, data |-> data, countries |-> <<>>, messages |-> {} ]

load_data_one_handler(f) ==
    LET r == read_csv(f)
    IN  IF r.raised = "" THEN table_and_countries(r.data)
        ELSE [ is_none |-> TRUE, data |-> NoTable, countries |-> <<>>,
               messages |-> { "load_error" } ]

\* The value returned, with the st.error calls made on the way.
load_data(f) ==
    LET r == read_csv(f)
    IN  CASE r.raised = "" -> table_and_countries(r.data)
          [] r.raised = "FileNotFoundError" ->
                [ is_none |-> TRUE, data |-> NoTable, countries |-> <<>>,
                  messages |-> { "file_not_found" } ]
          [] OTHER ->
                [ is_none |-> TRUE, data |-> NoTable, countries |-> <<>>,
                  messages |-> { "load_error" } ]

----------------------------------------------------------------------------
(* process_multiselect_column, lines 24-38 *)

\* lines 30-38
count_tokens(df, column_name) ==
    LET df_processed == DataFrameDropna(df, column_name)
    IN  IF df_processed.rows = <<>>
        THEN { [counts |-> EmptySeries, warning |-> FALSE, raised |-> FALSE] }
        ELSE { [counts |-> c, warning |-> FALSE, raised |-> FALSE] :
                 c \in value_counts(Explode(Column(df_processed, column_name))) }

\* without lines 26-28 df.dropna(subset=[column_name]) raises KeyError
process_multiselect_column_unguarded(df, column_name) ==
    IF column_name \notin df.columns
    THEN { [counts |-> EmptySeries, warning |-> FALSE, raised |-> TRUE] }
    ELSE count_tokens(df, column_name)

\* The outcomes of one call: the Series returned, whether st.warning was
\* called, whether an exception left the function.  st.cache_data returns a
\* stored outcome of an earlier call with the same arguments and replays
\* its warning, which is one of these outcomes again.
process_multiselect_column(df, column_name) ==
    IF column_name \notin df.columns
    THEN { [counts |-> EmptySeries, warning |-> TRUE, raised |-> FALSE] }
    ELSE count_tokens(df, column_name)

----------
(* Inputs of the function-level specification *)

UNIT_COLUMN == "LanguageHaveWorkedWith"
MISSING_COLUMN == "NonexistentCol"

\* characters of the enumerated multi-select cells: a letter, a blank, the
\* separator
Alphabet == { "a", " ", ";" }

Strings(n) == UNION { [1..k -> Alphabet] : k \in 0..n }

\* sequences of at most r cells holding at most n characters together
RECURSIVE CellSeqs(_, _)
CellSeqs(r, n) ==
    IF r = 0 THEN { <<>> }
    ELSE { <<>> } \cup
         UNION { { <<c>> \o rest : rest \in CellSeqs(r - 1, n - Len(c.text)) } :
                   c \in { NaN } \cup { Str(s) : s \in Strings(n) } }

OneColumn(column_name, cells) ==
    [ columns |-> { column_name },
      rows    |-> [ i \in DOMAIN cells |-> [ c \in { column_name } |-> cells[i] ] ] ]

UnitTables == { OneColumn(UNIT_COLUMN, cells) : cells \in CellSeqs(MaxRows, MaxChars) }

CountryNames == { <<"K">>, <<"K", "R">>, <<"U", "S">>, <<"U", "K">> }

CountryCells == { NaN } \cup { Str(s) : s \in CountryNames }

CountryColumns == UNION { [1..k -> CountryCells] : k \in 0..(MaxRows + 1) }

UnitFiles ==
    { [kind |-> k, table |-> NoTable] : k \in { "absent", "unreadable", "malformed" } }
    \cup { [kind |-> "csv", table |-> OneColumn(COUNTRY, cells)] : cells \in CountryColumns }
    \cup { [kind |-> "csv", table |-> OneColumn(UNIT_COLUMN, cells)] :
             cells \in [1..MaxRows -> { NaN, Str(<<"a">>) }] }

NoCall ==
    [ called |-> FALSE, df |-> NoTable, column_name |-> "",
      counts |-> EmptySeries, warning |-> FALSE, raised |-> FALSE ]

\* no st.plotly_chart call
NoFigure == [ data |-> EmptySeries, yaxis |-> EmptySeries ]

NoView ==
    [ errors |-> {}, warnings |-> {}, sidebar |-> FALSE, page |-> "none",
      exception |-> FALSE, chart |-> NoFigure, table |-> EmptySeries,
      total |-> 0, preview |-> <<>> ]

NoneDF == [ is_none |-> TRUE, data |-> NoTable ]

----------------------------------------------------------------------------
(* Function-level specification: one call of load_data or of               *)
(* process_multiselect_column on an enumerated input                       *)

UnitInit ==
    /\ df_public = NoneDF
    /\ countries = <<>>
    /\ load_messages = {}
    /\ selected_menu = menu_options[1]
    /\ selected_country = ALL
    /\ selected_option_label = analysis_labels[1]
    /\ view = NoView
    /\ \/ /\ pc = "call_load"
          /\ file \in UnitFiles
          /\ agg = NoCall
       \/ /\ pc = "call_aggregate"
          /\ file = [kind |-> "absent", table |-> NoTable]
          /\ \E t \in UnitTables, c \in { UNIT_COLUMN, MISSING_COLUMN } :
                agg = [ NoCall EXCEPT !.df = t, !.column_name = c ]

CallLoad ==
    /\ pc = "call_load"
    /\ LET r == load_data(file)
       IN  /\ df_public' = [ is_none |-> r.is_none, data |-> r.data ]
           /\ countries' = r.countries
           /\ load_messages' = r.messages
    /\ pc' = "returned_load"
    /\ UNCHANGED <<file, selected_menu, selected_country, selected_option_label,
                   view, agg>>

CallAggregate ==
    /\ pc = "call_aggregate"
    /\ \E out \in process_multiselect_column(agg.df, agg.column_name) :
          agg' = [ agg EXCEPT !.called = TRUE, !.counts = out.counts,
                              !.warning = out.warning, !.raised = out.raised ]
    /\ pc' = "returned_aggregate"
    /\ UNCHANGED <<file, df_public, countries, load_messages, selected_menu,
                   selected_country, selected_option_label, view>>

UnitNext == CallLoad \/ CallAggregate

UnitSpec == UnitInit /\ [][UnitNext]_vars

----------------------------------------------------------------------------
(* The pages, lines 42-133 *)

USAGE_COLUMN == "LanguageHaveWorkedWith"

is_empty_never(series) == FALSE

\* Series.empty, lines 64 and 113
is_empty(series) == series = EmptySeries

filter_country_ignored(df, country) == [ raised |-> FALSE, df |-> df ]

\* lines 57-60 and 88-91: the whole table for the sentinel, the rows of the
\* country otherwise; df['Country'] raises KeyError without that column
filter_country(df, country) ==
    IF country = ALL
    THEN [ raised |-> FALSE, df |-> df ]
    ELSE IF COUNTRY \notin df.columns
    THEN [ raised |-> TRUE, df |-> df ]
    ELSE [ raised |-> FALSE,
           df |-> [ df EXCEPT !.rows =
                      SelectSeq(df.rows, LAMBDA r : r[COUNTRY] = Str(country)) ] ]

\* update_layout(yaxis={'categoryorder': 'total ascending'}), lines 77 and
\* 130: the orders plotly can give the categories along the y axis, by
\* ascending total; categories of equal total stand as plotly leaves them
RECURSIVE TotalAscending(_)
TotalAscending(bars) ==
    IF bars = {} THEN { <<>> }
    ELSE LET low == { b \in bars : \A o \in bars : b[2] <= o[2] }
         IN  UNION { { <<b>> \o rest : rest \in TotalAscending(bars \ {b}) } :
                     b \in low }

\* px.bar(top, x='Count', y=label, orientation='h') with the layout update,
\* lines 75-78 and 122-132: the frame given as data, and the categories of
\* the y axis from its origin upwards
bar_figures(top) ==
    { [ data |-> top, yaxis |-> order ] : order \in TotalAscending(Range(top)) }

\* what a page leaves on the screen under the sidebar: the figure given to
\* st.plotly_chart, the frame given to st.dataframe
PageView(page, warnings, exception, figure, top, total, preview) ==
    [ errors |-> {}, warnings |-> warnings, sidebar |-> TRUE, page |-> page,
      exception |-> exception, chart |-> figure, table |-> top,
      total |-> total, preview |-> preview ]

Called(df, column_name, out) ==
    [ called |-> TRUE, df |-> df, column_name |-> column_name,
      counts |-> out.counts, warning |-> out.warning, raised |-> out.raised ]

\* the st.warning made inside process_multiselect_column
ColumnWarning(out) == IF out.warning THEN { "column_missing" } ELSE {}

\* lines 42-51
show_home(df) ==
    { [ view |-> PageView("Home", {}, FALSE, NoFigure, EmptySeries,
                          Len(df.rows), SeriesHead(df.rows, HeadRows)),
        agg  |-> NoCall ] }

\* lines 53-82
show_language_usage(df, country) ==
    LET f == filter_country(df, country)
    IN  IF f.raised
        THEN { [ view |-> PageView("Usage", {}, TRUE, NoFigure, EmptySeries, 0, <<>>),
                 agg  |-> NoCall ] }
        ELSE UNION {
               IF out.raised
               THEN { [ view |-> PageView("Usage", {}, TRUE, NoFigure, EmptySeries, 0, <<>>),
                        agg  |-> Called(f.df, USAGE_COLUMN, out) ] }
               ELSE IF is_empty(out.counts)
               THEN { [ view |-> PageView("Usage", ColumnWarning(out) \cup { "no_data" },
                                          FALSE, NoFigure, EmptySeries, 0, <<>>),
                        agg  |-> Called(f.df, USAGE_COLUMN, out) ] }
               ELSE { [ view |-> PageView("Usage", ColumnWarning(out), FALSE, fig,
                                          SeriesHead(out.counts, TopN), 0, <<>>),
                        agg  |-> Called(f.df, USAGE_COLUMN, out) ] :
                      fig \in bar_figures(SeriesHead(out.counts, TopN)) } :
               out \in process_multiselect_column(f.df, USAGE_COLUMN) }

\* lines 84-133
show_detailed_analysis(df, country, label) ==
    LET f == filter_country(df, country)
        selected_column_name == analysis_options[label]
    IN  IF f.raised
        THEN { [ view |-> PageView("Detail", {}, TRUE, NoFigure, EmptySeries, 0, <<>>),
                 agg  |-> NoCall ] }
        ELSE UNION {
               IF out.raised
               THEN { [ view |-> PageView("Detail", {}, TRUE, NoFigure, EmptySeries, 0, <<>>),
                        agg  |-> Called(f.df, selected_column_name, out) ] }
               ELSE IF is_empty(out.counts)
               THEN { [ view |-> PageView("Detail", ColumnWarning(out) \cup { "no_data" },
                                          FALSE, NoFigure, EmptySeries, 0, <<>>),
                        agg  |-> Called(f.df, selected_column_name, out) ] }
               ELSE { [ view |-> PageView("Detail", ColumnWarning(out), FALSE, fig,
                                          SeriesHead(out.counts, TopN), 0, <<>>),
                        agg  |-> Called(f.df, selected_column_name, out) ] :
                      fig \in bar_figures(SeriesHead(out.counts, TopN)) } :
               out \in process_multiselect_column(f.df, selected_column_name) }

----------------------------------------------------------------------------
(* The script body, lines 135-162 *)

load_succeeded_always(dfp) == TRUE

\* line 135
load_succeeded(dfp) == ~dfp.is_none

\* line 147
country_options(ctrs) == <<ALL>> \o ctrs

\* One execution of lines 135-162 with the widgets' values: the outcomes
\* [view, agg].  load_data is cached, so its st.error calls are replayed.
script_body(dfp, msgs, menu, country, label) ==
    IF load_succeeded(dfp)
    THEN CASE menu = "Home"   -> show_home(dfp.data)
           [] menu = "Usage"  -> show_language_usage(dfp.data, country)
           [] menu = "Detail" -> show_detailed_analysis(dfp.data, country, label)
    ELSE { [ view |-> [ NoView EXCEPT !.errors = msgs \cup { "cannot_run" } ],
             agg  |-> NoCall ] }

----------------------------------------------------------------------------
(* Inputs of the session specification *)

SessionCountryCells == { NaN, Str(<<"K", "R">>), Str(<<"U", "S">>) }

GO == <<"G", "o">>
GO_RUST == <<"G", "o", ";", "R", "u", "s", "t">>

SessionTopicCells == { NaN, Str(GO), Str(GO_RUST) }

SessionTopics == { "LanguageHaveWorkedWith", "DatabaseWantToWorkWith" }

TwoColumns(topic, pairs) ==
    [ columns |-> { COUNTRY, topic },
      rows    |-> [ i \in DOMAIN pairs |->
                      [ c \in { COUNTRY, topic } |->
                          IF c = COUNTRY THEN pairs[i][1] ELSE pairs[i][2] ] ] ]

Letters ==
    << "a", "b", "c", "d", "e", "f", "g", "h", "i", "j", "k", "l", "m",
       "n", "o", "p", "q", "r", "s", "t", "u", "v", "w", "x", "y", "z" >>

\* Letters[i], ..., Letters[n] joined by ';'
RECURSIVE JoinLetters(_, _)
JoinLetters(i, n) ==
    IF i > n THEN <<>>
    ELSE IF i = n THEN << Letters[i] >>
    ELSE << Letters[i], ";" >> \o JoinLetters(i + 1, n)

\* n distinct tokens with n distinct counts: row i holds tokens i..n, so the
\* i-th token is seen first among those left and occurs i times
WideTable(n) ==
    OneColumn(USAGE_COLUMN, [ i \in 1..n |-> Str(JoinLetters(i, n)) ])

SessionTables ==
    { TwoColumns(t, pairs) :
        t \in SessionTopics,
        pairs \in UNION { [1..k -> SessionCountryCells \X SessionTopicCells] :
                            k \in 0..MaxRows } }
    \cup { OneColumn(COUNTRY, cells) :
             cells \in UNION { [1..k -> SessionCountryCells] : k \in 0..MaxRows } }
    \cup { OneColumn(USAGE_COLUMN, cells) :
             cells \in UNION { [1..k -> SessionTopicCells] : k \in 0..MaxRows } }
    \cup { WideTable(n) : n \in (TopN - 1)..MaxWide }

SessionFiles ==
    { [kind |-> k, table |-> NoTable] : k \in { "absent", "unreadable", "malformed" } }
    \cup { [kind |-> "csv", table |-> t] : t \in SessionTables }

----------------------------------------------------------------------------
(* Session specification: the script runs once at start and once more on   *)
(* every interaction with a widget it rendered                             *)

Init ==
    /\ file \in SessionFiles
    /\ pc = "boot"
    /\ df_public = NoneDF
    /\ countries = <<>>
    /\ load_messages = {}
    /\ selected_menu = menu_options[1]
    /\ selected_country = ALL
    /\ selected_option_label = analysis_labels[1]
    /\ view = NoView
    /\ agg = NoCall

\* the rest of the script after the widgets returned their values
Render(dfp, msgs, menu, country, label) ==
    \E o \in script_body(dfp, msgs, menu, country, label) :
        /\ view' = o.view
        /\ agg' = o.agg

\* first execution: line 40 loads, the widgets return their defaults
Start ==
    /\ pc = "boot"
    /\ LET r   == load_data(file)
           dfp == [ is_none |-> r.is_none, data |-> r.data ]
       IN  /\ df_public' = dfp
           /\ countries' = r.countries
           /\ load_messages' = r.messages
           /\ pc' = IF load_succeeded(dfp) THEN "running" ELSE "failed"
           /\ Render(dfp, r.messages, menu_options[1], ALL, analysis_labels[1])
    /\ UNCHANGED <<file, selected_menu, selected_country, selected_option_label>>

\* the radio of lines 138-141; the topic selectbox exists only on the
\* detail page and starts from its first option when that page is entered
SelectMenu ==
    /\ pc = "running"
    /\ \E m \in Range(menu_options) \ { selected_menu } :
          /\ selected_menu' = m
          /\ selected_option_label' = analysis_labels[1]
          /\ Render(df_public, load_messages, m, selected_country, analysis_labels[1])
    /\ UNCHANGED <<file, pc, df_public, countries, load_messages, selected_country>>

\* the selectbox of lines 149-152
SelectCountry ==
    /\ pc = "running"
    /\ \E c \in Range(country_options(countries)) \ { selected_country } :
          /\ selected_country' = c
          /\ Render(df_public, load_messages, selected_menu, c, selected_option_label)
    /\ UNCHANGED <<file, pc, df_public, countries, load_messages, selected_menu,
                   selected_option_label>>

\* the selectbox of lines 104-107
SelectTopic ==
    /\ pc = "running"
    /\ view.page = "Detail"
    /\ \E l \in Range(analysis_labels) \ { selected_option_label } :
          /\ selected_option_label' = l
          /\ Render(df_public, load_messages, selected_menu, selected_country, l)
    /\ UNCHANGED <<file, pc, df_public, countries, load_messages, selected_menu,
                   selected_country>>

\* the script runs again with the same widget values
Rerun ==
    /\ pc \in { "running", "failed" }
    /\ Render(df_public, load_messages, selected_menu, selected_country,
              selected_option_label)
    /\ UNCHANGED <<file, pc, df_public, countries, load_messages, selected_menu,
                   selected_country, selected_option_label>>

Next == Start \/ SelectMenu \/ SelectCountry \/ SelectTopic \/ Rerun

Spec == Init /\ [][Next]_vars

----------------------------------------------------------------------------
(* Vocabulary of the properties, stated without the model's operators      *)

\* the separators of a text, with the positions just outside it
Cuts(s) == { 0, Len(s) + 1 } \cup { i \in DOMAIN s : s[i] = ";" }

\* the pieces of a text between neighbouring cuts
Pieces(s) ==
    { pq \in Cuts(s) \X Cuts(s) :
        /\ pq[1] < pq[2]
        /\ \A c \in Cuts(s) : ~(pq[1] < c /\ c < pq[2]) }

\* occurrences of token t in column column_name of df: one per row with a
\* value and per piece of it that reads t
Occurrences(df, column_name, t) ==
    Cardinality(UNION {
        { <<i, pq>> : pq \in { x \in Pieces(df.rows[i][column_name].text) :
                                 SubSeq(df.rows[i][column_name].text,
                                        x[1] + 1, x[2] - 1) = t } } :
        i \in { j \in DOMAIN df.rows : ~df.rows[j][column_name].missing } })

\* every token that occurs in the column
TokensOf(df, column_name) ==
    UNION { { SubSeq(df.rows[i][column_name].text, pq[1] + 1, pq[2] - 1) :
                pq \in Pieces(df.rows[i][column_name].text) } :
            i \in { j \in DOMAIN df.rows : ~df.rows[j][column_name].missing } }

\* the tokens of the column in flattening order: row order, then position
FlatOf(df, column_name) == Explode(SeriesDropna(Column(df, column_name)))

FirstSeen(flat, t) == CHOOSE i \in DOMAIN flat : flat[i] = t /\ \A j \in 1..(i - 1) : flat[j] # t

Returned == pc = "returned_aggregate"

Loaded == pc = "returned_load"

----------------------------------------------------------------------------
(* C1: for a column of the table, the result maps each token to the number *)
(* of its occurrences in the literal ';'-split of the non-missing values:  *)
(* every token that occurs has exactly one entry, with that count; nothing *)
(* else has an entry (so no zero counts, and nothing at all when every row *)
(* is missing); tokens are neither trimmed nor dropped when empty.         *)
C1_CountsAreOccurrences ==
    (Returned /\ agg.column_name \in agg.df.columns) =>
        /\ ~agg.raised
        /\ \A i \in DOMAIN agg.counts :
              /\ agg.counts[i][2] > 0
              /\ agg.counts[i][2] = Occurrences(agg.df, agg.column_name, agg.counts[i][1])
        /\ \A i, j \in DOMAIN agg.counts :
              agg.counts[i][1] = agg.counts[j][1] => i = j
        /\ { agg.counts[i][1] : i \in DOMAIN agg.counts } = TokensOf(agg.df, agg.column_name)

\* rows <<NaN, "a;;a">>: the missing row adds nothing, the empty token
\* between the separators is counted once, "a" twice
C1_Witness ==
    /\ Returned
    /\ agg.column_name = UNIT_COLUMN
    /\ Column(agg.df, UNIT_COLUMN) = << NaN, Str(<<"a", ";", ";", "a">>) >>
    /\ Range(agg.counts) = { << <<"a">>, 2 >>, << <<>>, 1 >> }

----------------------------------------------------------------------------
(* C2 as stated: the result is ordered by descending count and tokens of   *)
(* equal count keep the order in which they were first seen.               *)
C2_Original_StableTies ==
    Returned =>
        \A i, j \in DOMAIN agg.counts :
            i < j =>
                \/ agg.counts[i][2] > agg.counts[j][2]
                \/ /\ agg.counts[i][2] = agg.counts[j][2]
                   /\ FirstSeen(FlatOf(agg.df, agg.column_name), agg.counts[i][1])
                        < FirstSeen(FlatOf(agg.df, agg.column_name), agg.counts[j][1])

(* C2 as amended: the result is ordered by descending count; it lists every *)
(* distinct token once, and the order among equal counts is not fixed.      *)
C2_DescendingCounts ==
    Returned =>
        /\ \A i, j \in DOMAIN agg.counts :
              i < j => agg.counts[i][2] >= agg.counts[j][2]
        /\ agg.column_name \in agg.df.columns =>
              /\ Len(agg.counts) = Cardinality(Range(FlatOf(agg.df, agg.column_name)))
              /\ { agg.counts[i][1] : i \in DOMAIN agg.counts }
                    = Range(FlatOf(agg.df, agg.column_name))

\* "a; " and ";a": the token seen first has the smallest count and comes last
C2_Witness ==
    /\ Returned
    /\ Column(agg.df, UNIT_COLUMN) = << Str(<<" ", ";", "a">>), Str(<<"a">>) >>
    /\ agg.counts = << << <<"a">>, 2 >>, << <<" ">>, 1 >> >>

----------------------------------------------------------------------------
(* C5: with a column name that is not a column of the table the call       *)
(* returns an empty result, emits the warning and raises nothing.          *)
C5_MissingColumnIsEmptyWithWarning ==
    (Returned /\ agg.column_name \notin agg.df.columns) =>
        /\ agg.counts = EmptySeries
        /\ agg.warning
        /\ ~agg.raised

C5_Witness ==
    /\ Returned
    /\ agg.column_name = MISSING_COLUMN
    /\ Len(agg.df.rows) = MaxRows
    /\ \A i \in DOMAIN agg.df.rows : ~agg.df.rows[i][UNIT_COLUMN].missing
    /\ agg.warning

----------------------------------------------------------------------------
(* C7 as stated: for every path that does not resolve to a readable file,  *)
(* load_data reports the file-not-found error, returns no table and an     *)
(* empty country list.                                                     *)
C7_Original_AlwaysFileNotFound ==
    (Loaded /\ file.kind \in { "absent", "unreadable" }) =>
        /\ load_messages = { "file_not_found" }
        /\ df_public.is_none
        /\ countries = <<>>

(* C7 as amended: on a path that does not exist load_data reports the      *)
(* file-not-found error; on a path that exists and cannot be read it       *)
(* reports the general load error; in both cases it returns no table and   *)
(* an empty country list.                                                  *)
C7_NoTableOnUnreadablePath ==
    (Loaded /\ file.kind \in { "absent", "unreadable" }) =>
        /\ file.kind = "absent" => load_messages = { "file_not_found" }
        /\ file.kind = "unreadable" => load_messages = { "load_error" }
        /\ df_public.is_none
        /\ countries = <<>>

C7_Witness ==
    /\ Loaded
    /\ file.kind = "absent"
    /\ load_messages = { "file_not_found" }
    /\ df_public.is_none

----------------------------------------------------------------------------
(* C9: after a successful load the country list holds exactly the distinct *)
(* non-missing values of the Country column, in strictly ascending order   *)
(* (so without duplicates), and is empty when there is no such column.     *)
C9_CountriesSortedDistinct ==
    (Loaded /\ ~df_public.is_none) =>
        /\ df_public.data = file.table
        /\ \A i \in 1..(Len(countries) - 1) : StrLess(countries[i], countries[i + 1])
        /\ COUNTRY \in file.table.columns =>
              Range(countries) =
                { file.table.rows[i][COUNTRY].text :
                    i \in { j \in DOMAIN file.table.rows :
                              ~file.table.rows[j][COUNTRY].missing } }
        /\ COUNTRY \notin file.table.columns => countries = <<>>

\* US, KR, K load as K, KR, US
C9_Witness ==
    /\ Loaded
    /\ ~df_public.is_none
    /\ COUNTRY \in file.table.columns
    /\ Column(file.table, COUNTRY) = << Str(<<"U", "S">>), Str(<<"K", "R">>), Str(<<"K">>) >>
    /\ countries = << <<"K">>, <<"K", "R">>, <<"U", "S">> >>

----------------------------------------------------------------------------
(* Vocabulary of the session's properties                                  *)

Running == pc = "running"

\* the rows of df the selection s covers: all of them for the sentinel,
\* those whose Country reads s otherwise, in their order
RowsOf(df, s) ==
    LET keep == { i \in DOMAIN df.rows :
                    \/ s = ALL
                    \/ /\ COUNTRY \in df.columns
                       /\ ~df.rows[i][COUNTRY].missing
                       /\ df.rows[i][COUNTRY].text = s }
        nth(k) == CHOOSE i \in keep : Cardinality({ j \in keep : j <= i }) = k
    IN  [ k \in 1..Cardinality(keep) |-> df.rows[nth(k)] ]

\* the column the current page aggregates
PageColumn ==
    IF view.page = "Usage" THEN "LanguageHaveWorkedWith"
    ELSE CASE selected_option_label = "most used language"   -> "LanguageHaveWorkedWith"
           [] selected_option_label = "most wanted language" -> "LanguageWantToWorkWith"
           [] selected_option_label = "most used database"   -> "DatabaseHaveWorkedWith"
           [] selected_option_label = "most wanted database" -> "DatabaseWantToWorkWith"
           [] selected_option_label = "most used platform"   -> "PlatformHaveWorkedWith"
           [] selected_option_label = "most wanted platform" -> "PlatformWantToWorkWith"

KR == <<"K", "R">>
US == <<"U", "S">>
RUST == <<"R", "u", "s", "t">>

\* the table of the spec's country filter example
ExampleTable ==
    TwoColumns("LanguageHaveWorkedWith",
               << <<Str(KR), Str(GO)>>, <<Str(US), Str(GO_RUST)>> >>)

AnalysisPage == view.page \in { "Usage", "Detail" }

----------------------------------------------------------------------------
(* C3: on the Usage and the Detail page the aggregate is computed over all *)
(* rows of the loaded table when the selection is the sentinel, and over   *)
(* exactly the rows whose Country equals the selection otherwise; the      *)
(* example table gives [(Go,1)] for KR and [(Go,2),(Rust,1)] for All.      *)
C3_AggregateOverSelectedRows ==
    (Running /\ AnalysisPage) =>
        /\ agg.called
        /\ agg.column_name = PageColumn
        /\ agg.df.columns = df_public.data.columns
        /\ agg.df.rows = RowsOf(df_public.data, selected_country)
        /\ (df_public.data = ExampleTable /\ PageColumn = "LanguageHaveWorkedWith") =>
              /\ selected_country = KR =>
                    /\ view.table = << <<GO, 1>> >>
                    /\ view.chart.data = << <<GO, 1>> >>
              /\ selected_country = ALL =>
                    /\ view.table = << <<GO, 2>>, <<RUST, 1>> >>
                    /\ view.chart.data = << <<GO, 2>>, <<RUST, 1>> >>

C3_Witness ==
    /\ Running
    /\ view.page = "Detail"
    /\ df_public.data = ExampleTable
    /\ selected_country = KR
    /\ selected_option_label = "most used language"
    /\ Len(agg.df.rows) = 1
    /\ view.table = << <<GO, 1>> >>

----------------------------------------------------------------------------
(* C4: a page whose aggregate has n entries hands exactly its first       *)
(* min(15, n) entries, in the same order, as (label, count) pairs to the   *)
(* table and to the chart; with 20 distinct tokens these are the first 15. *)
(* The chart then lays the same entries along its axis by ascending total. *)
C4_TopFifteen ==
    (Running /\ AnalysisPage /\ agg.called) =>
        LET n == IF agg.column_name \in agg.df.columns
                 THEN Cardinality(TokensOf(agg.df, agg.column_name))
                 ELSE 0
        IN  /\ Len(agg.counts) = n
            /\ Len(view.table) = Min(TopN, n)
            /\ \A i \in DOMAIN view.table : view.table[i] = agg.counts[i]
            /\ view.chart.data = view.table
            /\ Len(view.chart.yaxis) = Len(view.table)
            /\ Range(view.chart.yaxis) = Range(view.table)
            /\ \A i, j \in DOMAIN view.chart.yaxis :
                  i < j => view.chart.yaxis[i][2] <= view.chart.yaxis[j][2]

C4_Witness ==
    /\ Running
    /\ view.page = "Usage"
    /\ Len(agg.counts) = MaxWide
    /\ Len(view.table) = TopN
    /\ view.table[1] = << <<Letters[MaxWide]>>, MaxWide >>
    /\ view.table[TopN] = agg.counts[TopN]
    /\ view.chart.yaxis[TopN] = view.table[1]

-----
LoadFailed == pc # "boot" /\ df_public.is_none

ErrorState ==
    /\ "cannot_run" \in view.errors
    /\ load_messages \subseteq view.errors
    /\ load_messages # {}
    /\ ~view.sidebar
    /\ view.page = "none"
    /\ view.chart = NoFigure
    /\ view.table = EmptySeries
    /\ ~agg.called

(* C6: once load_data has failed, every later state shows the error state: *)
(* no sidebar, no Home, Usage or Detail page, and no call of the           *)
(* aggregator.                                                             *)
C6_FailedLoadStaysInErrorState == [](LoadFailed => [](LoadFailed /\ ErrorState))

C6_Witness ==
    /\ pc = "failed"
    /\ file.kind = "malformed"
    /\ view.errors = { "load_error", "cannot_run" }

----------------------------------------------------------------------------
NoDataShown ==
    /\ "no_data" \in view.warnings
    /\ view.chart = NoFigure
    /\ view.table = EmptySeries
    /\ ~view.exception

TopShown ==
    /\ "no_data" \notin view.warnings
    /\ view.table # EmptySeries
    /\ view.table = SubSeq(agg.counts, 1, Min(TopN, Len(agg.counts)))
    /\ view.chart.data = view.table
    /\ Range(view.chart.yaxis) = Range(view.table)
    /\ ~view.exception

EmptyAggregate == Running /\ AnalysisPage /\ agg.called /\ agg.counts = EmptySeries

(* C8: after a successful load, a selection whose aggregate is empty shows *)
(* the no-data warning and neither chart nor table; no interaction changes *)
(* the loaded table or the country list; and an interaction that leads     *)
(* from there to a selection with data shows its top 15.                   *)
C8_EmptySelectionIsNotFatal ==
    /\ [](EmptyAggregate => NoDataShown)
    /\ [][ Running =>
             /\ pc' = pc
             /\ df_public' = df_public
             /\ countries' = countries ]_vars
    /\ [][ (EmptyAggregate /\ (agg.called /\ agg.counts # EmptySeries)') => TopShown' ]_vars

\* the country KR has no language data, the table as a whole has
C8_Witness ==
    /\ EmptyAggregate
    /\ NoDataShown
    /\ selected_country = KR
    /\ agg.column_name \in agg.df.columns
    /\ \E i \in DOMAIN df_public.data.rows :
          ~df_public.data.rows[i][agg.column_name].missing

----------------------------------------------------------------------------
(* C10: after a successful load the selected country is the sentinel or a  *)
(* member of the country list computed at load; so a country is selected   *)
(* only when the table has a Country column, no page fails on the column   *)
(* lookup, and every country of the list selects at least one row.         *)
C10_SelectionIsSentinelOrListed ==
    Running =>
        /\ selected_country = ALL \/ selected_country \in Range(countries)
        /\ selected_country # ALL => COUNTRY \in df_public.data.columns
        /\ ~view.exception
        /\ \A c \in Range(countries) : RowsOf(df_public.data, c) # <<>>
        /\ (AnalysisPage /\ selected_country # ALL) => agg.df.rows # <<>>

C10_Witness ==
    /\ Running
    /\ view.page = "Usage"
    /\ selected_country = US
    /\ countries = << KR, US >>
    /\ agg.called
    /\ Len(agg.df.rows) = 1

====
